---- MODULE Spec2Model ----
(***************************************************************************)
(* Shift-and-invert matrix operations of Spectra:                          *)
(*   DenseSymShiftSolve  y = (A - sigma*I)^{-1} x   (DenseSymShiftSolve.h) *)
(*   SymShiftInvert      y = (A - sigma*B)^{-1} x   (SymShiftInvert.h)     *)
(* Matrices are sequences of rows of integers.  A solution vector is an    *)
(* exact rational vector [num, den] in lowest terms with den > 0.          *)
(***************************************************************************)
EXTENDS Integers, Sequences, FiniteSets, TLC

\* ------------------------------------------------------------------ bounds
\* the shifts handed to set_shift range over -1..MaxSigma
MaxSigma == 1
\* matrix orders and entry values of the caller's matrices
Dims == {1, 2}
Vals == {0, 1}
\* possible contents of freshly allocated, never written matrix storage
Uninit == {-9, 9}

Shifts == (0 - 1)..MaxSigma
Uplos == {"Lower", "Upper"}

VARIABLES
    cfg,        \* template arguments: [op, ASparse, BSparse, UploA, UploB]
    A, B,       \* the caller's matrices (B is the 0x0 matrix for DenseSymShiftSolve)
    obj,        \* "none" before construction, "live", or "failed" (constructor threw)
    m_n,        \* member m_n
    m_solver,   \* member m_solver (the factorization backend object)
    call,       \* the most recent call and what it returned or threw
    sigma       \* argument of the most recent set_shift call

vars == <<cfg, A, B, obj, m_n, m_solver, call, sigma>>

\* ------------------------------------------------------- matrix primitives
Rows(M) == Len(M)
Cols(M) == IF Len(M) = 0 THEN 0 ELSE Len(M[1])

MatricesOf(r, c) == [1..r -> [1..c -> Vals]]
\* the vectors x handed to perform_op: the unit vectors of length n
Vectors(n) == {[j \in 1..n |-> IF j = i THEN 1 ELSE 0] : i \in 1..n}

\* (i,j) lies in the Lower / Upper triangle, diagonal included
InTri(uplo, i, j) == IF uplo = "Lower" THEN i >= j ELSE i <= j

\* coefficient (i,j) of M.triangularView<uplo>(): zero outside the triangle
triangularView(M, uplo, i, j) == IF InTri(uplo, i, j) THEN M[i][j] ELSE 0

\* coefficient (i,j) of M.selfadjointView<uplo>(): the triangle, mirrored
selfadjointView(M, uplo, i, j) == IF InTri(uplo, i, j) THEN M[i][j] ELSE M[j][i]

IsSymmetric(M) == \A i \in 1..Rows(M) : \A j \in 1..Cols(M) : M[i][j] = M[j][i]

\* -------------------------------------------------- exact linear algebra
Drop(s, k) == [i \in 1..(Len(s) - 1) |-> IF i < k THEN s[i] ELSE s[i + 1]]
Minor(M, r, c) == [i \in 1..(Len(M) - 1) |-> Drop(Drop(M, r)[i], c)]
Sign(k) == IF k % 2 = 0 THEN 1 ELSE -1

RECURSIVE SumTo(_, _)
SumTo(f, n) == IF n = 0 THEN 0 ELSE f[n] + SumTo(f, n - 1)

\* determinant, by expansion along the first row
RECURSIVE Det(_)
Det(M) ==
    IF Len(M) = 0 THEN 1
    ELSE IF Len(M) = 1 THEN M[1][1]
    ELSE IF Len(M) = 2 THEN M[1][1] * M[2][2] - M[1][2] * M[2][1]
    ELSE SumTo([j \in 1..Len(M) |-> Sign(1 + j) * M[1][j] * Det(Minor(M, 1, j))], Len(M))

\* M with column c replaced by the vector x
ReplaceCol(M, c, x) ==
    [i \in 1..Len(M) |-> [j \in 1..Len(M) |-> IF j = c THEN x[i] ELSE M[i][j]]]

\* Det(M) * M^{-1} x, by Cramer's rule
CramerNum(M, x) == [i \in 1..Len(M) |-> Det(ReplaceCol(M, i, x))]

MatVec(M, x) ==
    [i \in 1..Rows(M) |-> SumTo([j \in 1..Cols(M) |-> M[i][j] * x[j]], Cols(M))]

Abs(k) == IF k < 0 THEN 0 - k ELSE k

RECURSIVE Gcd(_, _)
Gcd(a, b) == IF b = 0 THEN Abs(a) ELSE Gcd(b, a % Abs(b))

RECURSIVE GcdTo(_, _)
GcdTo(f, n) == IF n = 0 THEN 0 ELSE Gcd(f[n], GcdTo(f, n - 1))

\* num/den with numerators and denominator divided by g
DivideBy(num, den, g) ==
    [num |-> [i \in 1..Len(num) |-> num[i] \div g], den |-> den \div g]

\* the rational vector num/den in lowest terms, den > 0
Rational(num, den) ==
    DivideBy(num, den, IF den < 0 THEN 0 - Gcd(den, GcdTo(num, Len(num)))
                                  ELSE Gcd(den, GcdTo(num, Len(num))))

NoY == [num |-> <<>>, den |-> 0]
\* the content of an output vector that holds no finite solution
NonFinite(n) == [num |-> [i \in 1..n |-> 0], den |-> 0]

\* ------------------------------------------- factorization backends
\* (LinAlg/BKLDLT.h and Eigen::SparseLU, known here through their interface:
\*  compute(matrix, triangle, shift) -> status, solve(vector) -> vector, info())

\* default-constructed BKLDLT<Scalar>
BKLDLT_new ==
    [kind |-> "BKLDLT", computed |-> FALSE, info |-> "NotComputed",
     symmetric |-> FALSE, uplo |-> "none", mat |-> <<>>]

\* default-constructed Eigen::SparseLU<ResType>
SparseLU_new ==
    [kind |-> "SparseLU", computed |-> FALSE, info |-> "NotComputed",
     symmetric |-> FALSE, uplo |-> "none", mat |-> <<>>]

\* BKLDLT after decomposing the symmetric matrix M
BKLDLT_decompose(fac, uplo, M) ==
    [fac EXCEPT !.computed = TRUE, !.uplo = uplo, !.mat = M,
                !.info = IF Det(M) # 0 THEN "Successful" ELSE "NumericalIssue"]

\* BKLDLT::compute(mat, uplo, shift): reads the uplo triangle of mat only and
\* decomposes the symmetric matrix it stands for, minus shift on the diagonal
BKLDLT_compute(fac, mat, uplo, shift) ==
    BKLDLT_decompose(fac, uplo,
        [i \in 1..Rows(mat) |-> [j \in 1..Rows(mat) |->
            selfadjointView(mat, uplo, i, j) - (IF i = j THEN shift ELSE 0)]])

\* SparseLU::isSymmetric(flag)
SparseLU_isSymmetric(fac, flag) == [fac EXCEPT !.symmetric = flag]

\* SparseLU::compute(mat): decomposes the matrix as stored
SparseLU_compute(fac, mat) ==
    [fac EXCEPT !.computed = TRUE, !.mat = mat,
                !.info = IF Det(mat) # 0 THEN "Success" ELSE "NumericalIssue"]

\* info() of either backend reports success
InfoOk(fac) == fac.info \in {"Successful", "Success"}

\* solve(x): the outcomes of a call, [thrown, y].  A successful decomposition
\* yields the exact solution.  BKLDLT refuses to solve before any compute and
\* solves with whatever a failed compute left, giving a non-finite vector.
\* SparseLU guards both cases by an assertion only, which a build may compile
\* out: the call then aborts, or returns a vector without a solution in it.
Backend_solve(fac, x) ==
    IF fac.computed /\ InfoOk(fac)
      THEN {[thrown |-> "none", y |-> Rational(CramerNum(fac.mat, x), Det(fac.mat))]}
    ELSE IF fac.kind = "BKLDLT"
      THEN IF ~fac.computed
             THEN {[thrown |-> "logic_error", y |-> NoY]}
             ELSE {[thrown |-> "none", y |-> NonFinite(Len(x))]}
    ELSE {[thrown |-> "assertion", y |-> NoY],
          [thrown |-> "none", y |-> NonFinite(Len(x))]}

\* ------------------------------------------------ SymShiftInvertHelper
\* Each factorize returns [fac, ok]: the backend after compute and the bool
\* returned.  u is the content of the uninitialised storage of `mat`.

\* what a factorize returns to set_shift: the backend f after compute and
\* the bool `fac.info() == success`
Returned(f, success) == [fac |-> f, ok |-> f.info = success]

\* a primary template that assembles into the matrix left by the previous
\* call instead of a fresh copy of A
factorize_SparseSparse_accumulate(fac, mA, mB, sg, UploA, UploB, u) ==
    LET matA == [i \in 1..Rows(mA) |-> [j \in 1..Cols(mA) |-> IF fac.computed THEN fac.mat[i][j]
                                     ELSE selfadjointView(mA, UploA, i, j)]]
        matB == [i \in 1..Rows(mB) |-> [j \in 1..Cols(mB) |-> selfadjointView(mB, UploB, i, j)]]
        mat  == [i \in 1..Rows(mA) |-> [j \in 1..Cols(mA) |-> matA[i][j] - sg * matB[i][j]]]
    IN  Returned(SparseLU_compute(SparseLU_isSymmetric(fac, TRUE), mat), "Success")

\* primary template (A sparse, B sparse)
factorize_SparseSparse(fac, mA, mB, sg, UploA, UploB, u) ==
    LET matA == [i \in 1..Rows(mA) |-> [j \in 1..Cols(mA) |-> selfadjointView(mA, UploA, i, j)]]
        matB == [i \in 1..Rows(mB) |-> [j \in 1..Cols(mB) |-> selfadjointView(mB, UploB, i, j)]]
        mat  == [i \in 1..Rows(mA) |-> [j \in 1..Cols(mA) |-> matA[i][j] - sg * matB[i][j]]]
    IN  Returned(SparseLU_compute(SparseLU_isSymmetric(fac, TRUE), mat), "Success")

\* factorize_DenseA with the .transpose() of the mismatched case left out
factorize_DenseA_no_transpose(fac, mA, mB, sg, UploA, UploB, u) ==
    LET mat0 == [i \in 1..Rows(mA) |-> [j \in 1..Cols(mA) |-> u]]
        mat1 == [i \in 1..Rows(mA) |-> [j \in 1..Cols(mA) |-> IF InTri(UploA, i, j) THEN mA[i][j] ELSE mat0[i][j]]]
        Bs == [i \in 1..Rows(mB) |-> [j \in 1..Cols(mB) |-> mB[i][j] * sg]]
        mat  == [i \in 1..Rows(mA) |-> [j \in 1..Cols(mA) |->
                         IF UploA = UploB
                           THEN mat1[i][j] - triangularView(Bs, UploA, i, j)
                           ELSE mat1[i][j] - triangularView(Bs, UploB, i, j)]]
    IN  Returned(BKLDLT_compute(fac, mat, UploA, 0), "Successful")

\* specialization <false, BIsSparse, UploA, UploB> (A dense)
factorize_DenseA(fac, mA, mB, sg, UploA, UploB, u) ==
    LET \* Matrix mat(A.rows(), A.cols());
        mat0 == [i \in 1..Rows(mA) |-> [j \in 1..Cols(mA) |-> u]]
        \* mat.triangularView<UploA>() = A;
        mat1 == [i \in 1..Rows(mA) |-> [j \in 1..Cols(mA) |-> IF InTri(UploA, i, j) THEN mA[i][j] ELSE mat0[i][j]]]
        Bs == [i \in 1..Rows(mB) |-> [j \in 1..Cols(mB) |-> mB[i][j] * sg]]
        \* mat -= (B * sigma).triangularView<UploA>()              or
        \* mat -= (B * sigma).triangularView<UploB>().transpose()
        mat  == [i \in 1..Rows(mA) |-> [j \in 1..Cols(mA) |->
                         IF UploA = UploB
                           THEN mat1[i][j] - triangularView(Bs, UploA, i, j)
                           ELSE mat1[i][j] - triangularView(Bs, UploB, j, i)]]
    IN  Returned(BKLDLT_compute(fac, mat, UploA, 0), "Successful")

\* factorize_SparseADenseB that always adds A.triangularView<UploB>()
factorize_SparseADenseB_wrong_triangle(fac, mA, mB, sg, UploA, UploB, u) ==
    LET mat0 == [i \in 1..Rows(mB) |-> [j \in 1..Cols(mB) |-> u]]
        mat1 == [i \in 1..Rows(mB) |-> [j \in 1..Cols(mB) |-> IF InTri(UploB, i, j) THEN (0 - sg) * mB[i][j]
                                                          ELSE mat0[i][j]]]
        mat  == [i \in 1..Rows(mB) |-> [j \in 1..Cols(mB) |-> mat1[i][j] + triangularView(mA, UploB, i, j)]]
    IN  Returned(BKLDLT_compute(fac, mat, UploB, 0), "Successful")

\* specialization <true, false, UploA, UploB> (A sparse, B dense)
factorize_SparseADenseB(fac, mA, mB, sg, UploA, UploB, u) ==
    LET \* Matrix mat(B.rows(), B.cols());
        mat0 == [i \in 1..Rows(mB) |-> [j \in 1..Cols(mB) |-> u]]
        \* mat.triangularView<UploB>() = -sigma * B;
        mat1 == [i \in 1..Rows(mB) |-> [j \in 1..Cols(mB) |-> IF InTri(UploB, i, j) THEN (0 - sg) * mB[i][j]
                                                          ELSE mat0[i][j]]]
        \* mat += A.triangularView<UploB>()                 or
        \* mat += A.triangularView<UploA>().transpose()
        mat  == [i \in 1..Rows(mB) |-> [j \in 1..Cols(mB) |->
                         IF UploA = UploB
                           THEN mat1[i][j] + triangularView(mA, UploB, i, j)
                           ELSE mat1[i][j] + triangularView(mA, UploA, j, i)]]
    IN  Returned(BKLDLT_compute(fac, mat, UploB, 0), "Successful")

\* a selection that keeps an existing factorization instead of recomputing
Helper_factorize_stale(c, fac, mA, mB, sg, u) ==
    IF fac.computed
      THEN [fac |-> fac, ok |-> InfoOk(fac)]
    ELSE IF ~c.ASparse
      THEN factorize_DenseA(fac, mA, mB, sg, c.UploA, c.UploB, u)
    ELSE IF ~c.BSparse
      THEN factorize_SparseADenseB(fac, mA, mB, sg, c.UploA, c.UploB, u)
    ELSE factorize_SparseSparse(fac, mA, mB, sg, c.UploA, c.UploB, u)

\* template selection SymShiftInvertHelper<AIsSparse, BIsSparse, UploA, UploB>
Helper_factorize(c, fac, mA, mB, sg, u) ==
    IF ~c.ASparse
      THEN factorize_DenseA(fac, mA, mB, sg, c.UploA, c.UploB, u)
    ELSE IF ~c.BSparse
      THEN factorize_SparseADenseB(fac, mA, mB, sg, c.UploA, c.UploB, u)
    ELSE factorize_SparseSparse(fac, mA, mB, sg, c.UploA, c.UploB, u)

\* contents the uninitialised `mat` of factorize may hold (the sparse/sparse
\* case allocates no uninitialised storage)
UninitOf(c) == IF c.ASparse /\ c.BSparse THEN {0} ELSE Uninit

\* FacType with SparseLU chosen as soon as one operand is sparse
FacType_any_sparse(c) == IF c.ASparse \/ c.BSparse THEN SparseLU_new ELSE BKLDLT_new

\* SymShiftInvert::FacType
FacType(c) == IF c.ASparse /\ c.BSparse THEN SparseLU_new ELSE BKLDLT_new

\* --------------------------------------------------------- the operators
\* lifecycle state of an operator whose backend object is fac
LifecycleOf(o, fac) ==
    IF o # "live" THEN "none"
    ELSE IF ~fac.computed THEN "Unshifted"
    ELSE IF InfoOk(fac) THEN "Ready"
    ELSE "Faulted"

Lifecycle == LifecycleOf(obj, m_solver)
Unshifted == Lifecycle = "Unshifted"
Ready == Lifecycle = "Ready"
Faulted == Lifecycle = "Faulted"

\* record of a call: operation, exception thrown, argument x, results y and n,
\* the lifecycle state it was made in, and whether it repeats the call before
\* it (same operation, same argument)
NoCall(op) ==
    [op |-> op, thrown |-> "none", x |-> <<>>, y |-> NoY, n |-> 0,
     from |-> Lifecycle, repeat |-> FALSE]

\* the constructor's test without `m_n != B.cols()`
SymShiftInvert_ctor_throws_no_cols(mA, mB) ==
    Rows(mA) # Cols(mA) \/ Rows(mA) # Rows(mB)

\* condition under which the SymShiftInvert constructor throws
SymShiftInvert_ctor_throws(mA, mB) ==
    Rows(mA) # Cols(mA) \/ Rows(mA) # Rows(mB) \/ Rows(mA) # Cols(mB)

\* condition under which the DenseSymShiftSolve constructor throws
DenseSymShiftSolve_ctor_throws(mat) == Rows(mat) # Cols(mat)

\* SymShiftInvert::SymShiftInvert(A, B)
SymShiftInvert_ctor ==
    /\ cfg.op = "ShiftInvert" /\ obj = "none"
    /\ IF SymShiftInvert_ctor_throws(A, B)
         THEN /\ obj' = "failed"
              /\ call' = [NoCall("ctor") EXCEPT !.thrown = "invalid_argument"]
              /\ UNCHANGED <<m_n, m_solver>>
         ELSE /\ obj' = "live"
              /\ m_n' = Rows(A)
              /\ m_solver' = FacType(cfg)
              /\ call' = NoCall("ctor")
    /\ UNCHANGED <<cfg, A, B, sigma>>

\* DenseSymShiftSolve::DenseSymShiftSolve(mat)
DenseSymShiftSolve_ctor ==
    /\ cfg.op = "ShiftSolve" /\ obj = "none"
    /\ IF DenseSymShiftSolve_ctor_throws(A)
         THEN /\ obj' = "failed"
              /\ call' = [NoCall("ctor") EXCEPT !.thrown = "invalid_argument"]
              /\ UNCHANGED <<m_n, m_solver>>
         ELSE /\ obj' = "live"
              /\ m_n' = Rows(A)
              /\ m_solver' = BKLDLT_new
              /\ call' = NoCall("ctor")
    /\ UNCHANGED <<cfg, A, B, sigma>>

\* rows() const of either class
rows ==
    /\ obj = "live"
    /\ call' = [NoCall("rows") EXCEPT !.n = m_n]
    /\ UNCHANGED <<cfg, A, B, obj, m_n, m_solver, sigma>>

\* cols() const of either class
cols ==
    /\ obj = "live"
    /\ call' = [NoCall("cols") EXCEPT !.n = m_n]
    /\ UNCHANGED <<cfg, A, B, obj, m_n, m_solver, sigma>>

\* a set_shift that ignores the result of the factorization
set_shift_thrown_never(success) == "none"

\* what set_shift throws given the bool its factorization returned
set_shift_thrown(success) == IF ~success THEN "invalid_argument" ELSE "none"

\* a set_shift that assembles the shifted matrix in the caller's A
SymShiftInvert_set_shift_inplace(sg) ==
    /\ cfg.op = "ShiftInvert" /\ obj = "live"
    /\ \E u \in UninitOf(cfg) :
         \E r \in {Helper_factorize(cfg, m_solver, A, B, sg, u)} :
             /\ m_solver' = r.fac
             /\ A' = r.fac.mat
             /\ call' = [NoCall("set_shift") EXCEPT
                           !.thrown = set_shift_thrown(r.ok),
                           !.repeat = (call.op = "set_shift" /\ sigma = sg)]
    /\ sigma' = sg
    /\ UNCHANGED <<cfg, B, obj, m_n>>

\* SymShiftInvert::set_shift(sigma)
SymShiftInvert_set_shift(sg) ==
    /\ cfg.op = "ShiftInvert" /\ obj = "live"
    /\ \E u \in UninitOf(cfg) :
         \E r \in {Helper_factorize(cfg, m_solver, A, B, sg, u)} :
             /\ m_solver' = r.fac
             /\ call' = [NoCall("set_shift") EXCEPT
                           !.thrown = set_shift_thrown(r.ok),
                           !.repeat = (call.op = "set_shift" /\ sigma = sg)]
    /\ sigma' = sg
    /\ UNCHANGED <<cfg, A, B, obj, m_n>>

\* DenseSymShiftSolve::set_shift(sigma)
DenseSymShiftSolve_set_shift(sg) ==
    /\ cfg.op = "ShiftSolve" /\ obj = "live"
    /\ \E f \in {BKLDLT_compute(m_solver, A, cfg.UploA, sg)} :
           /\ m_solver' = f
           /\ call' = [NoCall("set_shift") EXCEPT
                         !.thrown = set_shift_thrown(~(f.info # "Successful")),
                         !.repeat = (call.op = "set_shift" /\ sigma = sg)]
    /\ sigma' = sg
    /\ UNCHANGED <<cfg, A, B, obj, m_n>>

\* a perform_op whose solve consumes the factorization
perform_op_consuming(x) ==
    /\ obj = "live"
    /\ \E out \in Backend_solve(m_solver, x) :
         /\ call' = [NoCall("perform_op") EXCEPT
                       !.thrown = out.thrown, !.x = x, !.y = out.y,
                       !.repeat = (call.op = "perform_op" /\ call.x = x)]
    /\ m_solver' = [m_solver EXCEPT !.computed = FALSE, !.info = "NotComputed"]
    /\ UNCHANGED <<cfg, A, B, obj, m_n, sigma>>

\* perform_op(x_in, y_out) const of either class: y = m_solver.solve(x)
perform_op(x) ==
    /\ obj = "live"
    /\ \E out \in Backend_solve(m_solver, x) :
         /\ call' = [NoCall("perform_op") EXCEPT
                       !.thrown = out.thrown, !.x = x, !.y = out.y,
                       !.repeat = (call.op = "perform_op" /\ call.x = x)]
    /\ UNCHANGED <<cfg, A, B, obj, m_n, m_solver, sigma>>

\* ----------------------------------------------------------- the system
Configs ==
    {[op |-> "ShiftInvert", ASparse |-> a, BSparse |-> b, UploA |-> ua, UploB |-> ub] :
        a \in BOOLEAN, b \in BOOLEAN, ua \in Uplos, ub \in Uplos}
    \cup
    {[op |-> "ShiftSolve", ASparse |-> FALSE, BSparse |-> FALSE, UploA |-> ua, UploB |-> ua] :
        ua \in Uplos}

AllMatrices == UNION {MatricesOf(r, c) : r \in Dims, c \in Dims}

Init ==
    /\ cfg \in Configs
    /\ A \in AllMatrices
    /\ B \in IF cfg.op = "ShiftInvert" THEN AllMatrices ELSE {<<>>}
    /\ obj = "none"
    /\ m_n = 0
    /\ m_solver = BKLDLT_new
    /\ call = NoCall("none")
    /\ sigma = 0

Next ==
    \/ SymShiftInvert_ctor
    \/ DenseSymShiftSolve_ctor
    \/ rows
    \/ cols
    \/ \E sg \in Shifts : SymShiftInvert_set_shift(sg)
    \/ \E sg \in Shifts : DenseSymShiftSolve_set_shift(sg)
    \/ \E x \in Vectors(m_n) : perform_op(x)

Spec == Init /\ [][Next]_vars

\* ------------------------------------------------------- reference values
ShiftInvert == cfg.op = "ShiftInvert"
Square(M) == Rows(M) = Cols(M)
Order == Rows(A)

\* the symmetric matrices that the designated triangles of A and B stand for
\* (B is the identity for DenseSymShiftSolve)
SymA(i, j) == IF InTri(cfg.UploA, i, j) THEN A[i][j] ELSE A[j][i]
SymB(i, j) ==
    IF ~ShiftInvert THEN (IF i = j THEN 1 ELSE 0)
    ELSE IF InTri(cfg.UploB, i, j) THEN B[i][j] ELSE B[j][i]
\* A - sg*B
Shifted(sg) == [i \in 1..Order |-> [j \in 1..Order |-> SymA(i, j) - sg * SymB(i, j)]]
\* A - sg*B is nonsingular
NonSingular(sg) == Det(Shifted(sg)) # 0

\* M with its strict triangle opposite to uplo zeroed: the representative of
\* all matrices that agree with M on the uplo triangle
TriOnly(M, uplo) ==
    [i \in 1..Rows(M) |-> [j \in 1..Cols(M) |-> IF InTri(uplo, i, j) THEN M[i][j] ELSE 0]]

\* C1: in state Ready every perform_op(x) returns without error the y with
\* (A - sigma*B) y = x for the sigma of the most recent set_shift.
C1_ApplySolvesCurrentShift ==
    (call.op = "perform_op" /\ Ready) =>
        /\ call.thrown = "none"
        /\ call.y.den > 0
        /\ MatVec(Shifted(sigma), call.y.num) = [i \in 1..Order |-> call.y.den * call.x[i]]

\* C1 witness: a solve in state Ready with mismatched triangles, a nonzero
\* shift and a solution that is not integral
C1_Witness ==
    /\ call.op = "perform_op" /\ Ready /\ ShiftInvert
    /\ cfg.UploA # cfg.UploB /\ sigma # 0 /\ call.y.den > 1

\* C2: perform_op made in state Unshifted or Faulted is reported as an error.
C2_ApplyOutsideReadyIsError ==
    (call.op = "perform_op" /\ call.from # "Ready") => call.thrown # "none"

\* C3: set_shift throws invalid_argument exactly when the backend reports
\* non-success, leaving the operator Faulted; otherwise it leaves it Ready,
\* from any state; success is decided by A, B and sigma alone; no other
\* operation changes the lifecycle state.
C3_Lifecycle ==
    [][ /\ call'.op = "set_shift" =>
            /\ call'.thrown \in {"none", "invalid_argument"}
            /\ (call'.thrown = "invalid_argument") <=> ~InfoOk(m_solver')
            /\ (call'.thrown = "invalid_argument") <=> Faulted'
            /\ (call'.thrown = "none") <=> Ready'
            /\ (call'.thrown = "none") <=> NonSingular(sigma)'
        /\ call'.op \in {"perform_op", "rows", "cols"} => Lifecycle' = Lifecycle
        /\ obj' = "live" => Lifecycle' \in {"Unshifted", "Ready", "Faulted"}
      ]_vars

\* C3 witness: a set_shift made in state Faulted that succeeded
C3_Witness == call.op = "set_shift" /\ call.from = "Faulted" /\ Ready

\* C4: construction throws invalid_argument and yields no operator exactly
\* when A is not square or (SymShiftInvert) B is not square or differs from A
\* in size; otherwise it succeeds with m_n = rows of A.
C4_Construction ==
    obj # "none" =>
        LET bad == \/ ~Square(A)
                   \/ ShiftInvert /\ (~Square(B) \/ Rows(B) # Rows(A) \/ Cols(B) # Cols(A))
        IN  /\ bad <=> obj = "failed"
            /\ obj = "failed" => call.op = "ctor" /\ call.thrown = "invalid_argument"
            /\ obj = "live" => m_n = Rows(A)
            /\ call.op = "ctor" /\ obj = "live" => call.thrown = "none"

\* C4 witness: A square, B not square with the same number of rows
C4_Witness ==
    /\ obj = "failed" /\ ShiftInvert
    /\ Square(A) /\ Rows(B) = Rows(A) /\ Cols(B) # Rows(B)

\* C5: for symmetric A and B every storage and triangle combination of
\* SymShiftInvert factorizes the matrix with entries A_ij - sigma*B_ij.
C5_SameShiftedMatrix ==
    (ShiftInvert /\ m_solver.computed /\ IsSymmetric(A) /\ IsSymmetric(B)) =>
        \A i \in 1..m_n : \A j \in 1..m_n :
            m_solver.mat[i][j] = A[i][j] - sigma * B[i][j]

\* C5 witness: mismatched triangles, off-diagonal entries present, nonzero shift
C5_Witness ==
    /\ ShiftInvert /\ m_solver.computed /\ IsSymmetric(A) /\ IsSymmetric(B)
    /\ cfg.UploA # cfg.UploB /\ m_n = 2 /\ sigma # 0
    /\ A[2][1] # 0 /\ B[2][1] # 0

\* C6: a set_shift(sigma) that directly follows a set_shift(sigma) with the
\* same sigma leaves the factorization and the reported outcome as they were.
C6_Idempotent ==
    [][ (call.op = "set_shift" /\ call'.op = "set_shift" /\ sigma' = sigma) =>
            /\ m_solver' = m_solver
            /\ call'.thrown = call.thrown
            /\ \A x \in Vectors(m_n) : Backend_solve(m_solver', x) = Backend_solve(m_solver, x)
      ]_vars

\* C6 witness: a repeated set_shift with a nonzero shift that succeeded
C6_Witness ==
    /\ call.op = "set_shift" /\ call.repeat /\ sigma # 0 /\ Ready /\ m_n = 2

\* C7: perform_op changes neither the factorization, the shift nor the
\* lifecycle state in any state, and where it is valid (state Ready) repeating
\* it with the same x returns the same y.
C7_ApplyFrame ==
    [][ call'.op = "perform_op" =>
            /\ m_solver' = m_solver
            /\ sigma' = sigma
            /\ Lifecycle' = Lifecycle
            /\ (call.op = "perform_op" /\ call.x = call'.x /\ Ready) =>
                   (call'.y = call.y /\ call'.thrown = call.thrown)
      ]_vars

\* C7 witness: a perform_op repeated with the same x in state Ready
C7_Witness == call.op = "perform_op" /\ call.repeat /\ Ready /\ m_n = 2

\* C8: no operation modifies the caller's A and B, m_n is fixed once the
\* operator exists, and rows() and cols() return it.
C8_InputsUntouched ==
    [][ /\ A' = A /\ B' = B
        /\ obj = "live" => (obj' = "live" /\ m_n' = m_n)
        /\ call'.op \in {"rows", "cols"} => (call'.n = m_n' /\ call'.n = Rows(A'))
      ]_vars

\* C8 witness: rows() called after a failed set_shift
C8_Witness == call.op = "rows" /\ Faulted /\ m_n = 2

\* C9: SymShiftInvert uses SparseLU (symmetric flag set) iff A and B are both
\* sparse; otherwise BKLDLT, given UploA when A is dense and UploB when A is
\* sparse and B dense.
C9_BackendSelection ==
    (ShiftInvert /\ obj = "live") =>
        /\ (m_solver.kind = "SparseLU") <=> (cfg.ASparse /\ cfg.BSparse)
        /\ (m_solver.kind = "BKLDLT") <=> ~(cfg.ASparse /\ cfg.BSparse)
        /\ m_solver.computed =>
             IF cfg.ASparse /\ cfg.BSparse
               THEN m_solver.symmetric /\ m_solver.uplo = "none"
               ELSE m_solver.uplo = (IF ~cfg.ASparse THEN cfg.UploA ELSE cfg.UploB)

\* C9 witness: A sparse, B dense, mismatched triangles, after a re-shift
C9_Witness ==
    /\ ShiftInvert /\ cfg.ASparse /\ ~cfg.BSparse /\ cfg.UploA # cfg.UploB
    /\ call.op = "set_shift" /\ call.from = "Ready"

\* C10: the factorization, the outcome of set_shift and the result of
\* perform_op are those obtained from inputs whose opposite strict triangles
\* are zeroed: they depend on the designated triangles only.
C10_OnlyDesignatedTriangle ==
    (obj = "live" /\ m_solver.computed) =>
        \A u \in Uninit :
          \E r \in {IF ShiftInvert
                      THEN Helper_factorize(cfg, FacType(cfg), TriOnly(A, cfg.UploA),
                                            TriOnly(B, cfg.UploB), sigma, u)
                      ELSE Returned(BKLDLT_compute(BKLDLT_new, TriOnly(A, cfg.UploA),
                                                   cfg.UploA, sigma), "Successful")} :
            /\ m_solver = r.fac
            /\ call.op = "set_shift" => call.thrown = set_shift_thrown(r.ok)
            /\ call.op = "perform_op" =>
                 [thrown |-> call.thrown, y |-> call.y] \in Backend_solve(r.fac, call.x)

\* C10 witness: both inputs differ from their mirror images, a solve was made
C10_Witness ==
    /\ ShiftInvert /\ m_n = 2 /\ Ready /\ call.op = "perform_op" /\ sigma # 0
    /\ A[1][2] # A[2][1] /\ B[1][2] # B[2][1] /\ cfg.UploA # cfg.UploB

====
